---- MODULE Spec2Model ----
(***************************************************************************)
(* Model of BeamLoadCalculatorComponent                                    *)
(* (src/components/beam-load-calculator.tsx): the input cells of the       *)
(* component, the recomputation effect (calculateResults followed by       *)
(* calculateDiagrams) and the values it stores.                            *)
(*                                                                         *)
(* Numbers.  A JavaScript number is modelled as a record [s, i, n, d] that *)
(* stands for s * (i + n/d): s is the sign (1 or -1), i the integer part   *)
(* of the magnitude and n/d its fractional part in lowest terms            *)
(* (0 <= n < d).  d = 0 marks the special values: i = 1 is +/-Infinity,    *)
(* i = 0 is NaN.  Zero is i = 0, n = 0, d = 1 and carries a sign.          *)
(* Arithmetic on finite values is exact; the special values follow         *)
(* IEEE-754.  The rounding of the 53-bit mantissa is modelled in one       *)
(* place, the sample position i * dx of calculateDiagrams, and only for    *)
(* its comparisons with the support and load positions (SampleRounding):   *)
(* the last sample of a 1000 mm beam is 999.9999999999999, below a support *)
(* at 1000.  Differences taken from a sample position use its exact value, *)
(* so where a sample falls within one rounding step of a support or load   *)
(* position the model yields an exact zero where the program yields a tiny *)
(* nonzero value; the sign of a stored zero, and NaN against an infinity   *)
(* in a product with such a difference, can differ there.                  *)
(***************************************************************************)
EXTENDS Integers, Sequences, FiniteSets, TLC

----------------------------------------------------------------------------
(* Number arithmetic                                                       *)

RECURSIVE GCD(_, _)
GCD(a, b) == IF b = 0 THEN a ELSE GCD(b, a % b)

NaN == [s |-> 1, i |-> 0, n |-> 0, d |-> 0]
Inf(s) == [s |-> s, i |-> 1, n |-> 0, d |-> 0]
Zero(s) == [s |-> s, i |-> 0, n |-> 0, d |-> 1]

\* s * (i + r/d) with the fraction r/d reduced by g = GCD(r, d)
Reduced(s, i, r, d, g) == [s |-> s, i |-> i, n |-> r \div g, d |-> d \div g]

\* the finite number s * (i + n/d) for naturals i, n and d > 0, normalised
Fin(s, i, n, d) == Reduced(s, i + (n \div d), n % d, d, GCD(n % d, d))

\* the number p/q for integers p and q > 0
R(p, q) == Fin(IF p < 0 THEN -1 ELSE 1, 0, IF p < 0 THEN -p ELSE p, q)
Num(p) ==
    [s |-> IF p < 0 THEN -1 ELSE 1, i |-> IF p < 0 THEN -p ELSE p, n |-> 0, d |-> 1]

IsNaN(a) == a.d = 0 /\ a.i = 0
IsInf(a) == a.d = 0 /\ a.i = 1
IsFinite(a) == a.d # 0
IsZero(a) == a.d # 0 /\ a.i = 0 /\ a.n = 0

Neg(a) == IF IsNaN(a) THEN a ELSE [a EXCEPT !.s = -a.s]
Abs(a) == [a EXCEPT !.s = 1]

\* a * b stays within the 32-bit integers of TLC
Fits(a, b) == a = 0 \/ b <= 2147483647 \div a

\* a * b from h = (a \div 2) * b, both as quotient and remainder by d
MulModStep(a, b, d, h) ==
    [q |-> 2 * h.q + ((2 * h.r) \div d) + ((((2 * h.r) % d) + (a % 2) * b) \div d),
     r |-> (((2 * h.r) % d) + (a % 2) * b) % d]

\* q and r with a * b = q * d + r and 0 <= r < d, for 0 <= a, b < d
RECURSIVE MulMod(_, _, _)
MulMod(a, b, d) ==
    IF a = 0 THEN [q |-> 0, r |-> 0]
    ELSE IF Fits(a, b) THEN [q |-> (a * b) \div d, r |-> (a * b) % d]
    ELSE MulModStep(a, b, d, MulMod(a \div 2, b, d))

\* a * b by d from m, the product of the remainders of a and b by d
MulDivWide(a, b, d, m) ==
    [q |-> (a \div d) * b + (a % d) * (b \div d) + m.q, r |-> m.r]

\* q and r with a * b = q * d + r and 0 <= r < d, for naturals a, b and d > 0
MulDiv(a, b, d) ==
    IF Fits(a, b) THEN [q |-> (a * b) \div d, r |-> (a * b) % d]
    ELSE MulDivWide(a, b, d, MulMod(a % d, b % d, d))

\* comparison of the magnitudes of finite numbers
MagEq(a, b) == a.i = b.i /\ a.n = b.n /\ a.d = b.d
FracLt(a, b, g) == a.n * (b.d \div g) < b.n * (a.d \div g)
MagLt(a, b) == a.i < b.i \/ (a.i = b.i /\ FracLt(a, b, GCD(a.d, b.d)))

\* s * (|a| + |b|) for finite a and b
AddFrac(s, a, b, g) ==
    Fin(s, a.i + b.i, a.n * (b.d \div g) + b.n * (a.d \div g), (a.d \div g) * b.d)
AddMag(s, a, b) ==
    IF a.n = 0 /\ b.n = 0 THEN [s |-> s, i |-> a.i + b.i, n |-> 0, d |-> 1]
    ELSE AddFrac(s, a, b, GCD(a.d, b.d))

\* s * (|a| - |b|) for finite a and b with |a| > |b|
SubBorrow(s, a, b, l, t) ==
    Fin(s, IF t < 0 THEN a.i - b.i - 1 ELSE a.i - b.i, IF t < 0 THEN t + l ELSE t, l)
SubFrac(s, a, b, g) ==
    SubBorrow(s, a, b, (a.d \div g) * b.d, a.n * (b.d \div g) - b.n * (a.d \div g))
SubMag(s, a, b) == SubFrac(s, a, b, GCD(a.d, b.d))

\* s * |a| * |b| for finite a and b, from t2 = a.i * b.n/b.d, t3 = b.i * a.n/a.d
\* and the common factors g1 and g2 of the two fractions
MulParts(s, a, b, t2, t3, g1, g2) ==
    AddMag(s,
           AddMag(s, Fin(s, a.i * b.i + t2.q + t3.q, t2.r, b.d), Fin(s, 0, t3.r, a.d)),
           Fin(s, 0, (a.n \div g1) * (b.n \div g2), (a.d \div g2) * (b.d \div g1)))
MulMag(s, a, b) ==
    IF a.n = 0 /\ b.n = 0 THEN [s |-> s, i |-> a.i * b.i, n |-> 0, d |-> 1]
    ELSE MulParts(s, a, b, MulDiv(a.i, b.n, b.d), MulDiv(b.i, a.n, a.d),
                  GCD(a.n, b.d), GCD(b.n, a.d))

Mul(a, b) ==
    IF IsNaN(a) \/ IsNaN(b) THEN NaN
    ELSE IF IsInf(a) \/ IsInf(b)
    THEN (IF IsZero(a) \/ IsZero(b) THEN NaN ELSE Inf(a.s * b.s))
    ELSE MulMag(a.s * b.s, a, b)

Recip(a) ==
    IF IsNaN(a) THEN NaN
    ELSE IF IsInf(a) THEN Zero(a.s)
    ELSE IF IsZero(a) THEN Inf(a.s)
    ELSE Fin(a.s, 0, a.d, a.i * a.d + a.n)

Div(a, b) == Mul(a, Recip(b))

Add(a, b) ==
    IF IsNaN(a) \/ IsNaN(b) THEN NaN
    ELSE IF IsInf(a) /\ IsInf(b) THEN (IF a.s = b.s THEN a ELSE NaN)
    ELSE IF IsInf(a) THEN a
    ELSE IF IsInf(b) THEN b
    ELSE IF a.s = b.s THEN AddMag(a.s, a, b)
    ELSE IF MagEq(a, b) THEN Zero(1)
    ELSE IF MagLt(a, b) THEN SubMag(b.s, b, a)
    ELSE SubMag(a.s, a, b)

Sub(a, b) == Add(a, Neg(b))

\* a < b, a = b, a <= b as JavaScript compares numbers (false when NaN is involved)
Lt(a, b) ==
    /\ ~IsNaN(a)
    /\ ~IsNaN(b)
    /\ IF IsZero(a) /\ IsZero(b) THEN FALSE
       ELSE IF a.s # b.s THEN a.s < b.s
       ELSE IF IsInf(a) \/ IsInf(b)
            THEN IF a.s = 1 THEN ~IsInf(a) /\ IsInf(b) ELSE IsInf(a) /\ ~IsInf(b)
       ELSE IF a.s = 1 THEN MagLt(a, b) ELSE MagLt(b, a)
Eq(a, b) ==
    /\ ~IsNaN(a)
    /\ ~IsNaN(b)
    /\ \/ IsZero(a) /\ IsZero(b)
       \/ a = b
Le(a, b) == Lt(a, b) \/ Eq(a, b)
Gt(a, b) == Lt(b, a)
Ge(a, b) == Le(b, a)

\* Math.min(a, b)
MathMin(a, b) ==
    IF IsNaN(a) \/ IsNaN(b) THEN NaN
    ELSE IF Lt(b, a) THEN b
    ELSE IF Lt(a, b) THEN a
    ELSE IF a.s = -1 THEN a ELSE b

\* Math.pow(a, k) for the integer exponents the component uses
RECURSIVE MathPow(_, _)
MathPow(a, k) == IF k = 0 THEN Num(1) ELSE Mul(a, MathPow(a, k - 1))

RECURSIVE Pow10(_)
Pow10(k) == IF k = 0 THEN 1 ELSE 10 * Pow10(k - 1)

\* one more decimal: p holds the decimals so far and the remainder, t is
\* 10 * p.r by d
NextDecimal(p, t) == [q |-> 10 * p.q + t.q, r |-> t.r]
DecimalsStep(d, p) == NextDecimal(p, MulDiv(p.r, 10, d))

\* the first k decimals of r/d (0 <= r < d) as an integer, and the remainder
RECURSIVE Decimals(_, _, _)
Decimals(r, d, k) ==
    IF k = 0 THEN [q |-> 0, r |-> r] ELSE DecimalsStep(d, Decimals(r, d, k - 1))

\* the magnitude of a rounded to the k decimals p, ties upward
Rounded(a, k, p) ==
    Fin(a.s, a.i, p.q + (IF p.r >= a.d - p.r THEN 1 ELSE 0), Pow10(k))

\* Number(a.toFixed(k)): the magnitude is rounded to k decimals, ties upward,
\* and the sign is kept (a negative value that rounds to zero gives -0; -0
\* itself prints as "0.00"); NaN and the infinities pass through
ToFixed(a, k) ==
    IF ~IsFinite(a) THEN a
    ELSE IF IsZero(a) THEN Zero(1)
    ELSE Rounded(a, k, Decimals(a.n, a.d, k))

----------------------------------------------------------------------------
(* The component's state                                                   *)

VARIABLES
    inputs,             \* the input cells (one field per useState cell)
    beamWeight,         \* useState cell beamWeight
    results,            \* useState cell results
    shearForceData,     \* useState cell shearForceData
    bendingMomentData,  \* useState cell bendingMomentData
    pc                  \* where the recomputation effect stands

vars == <<inputs, beamWeight, results, shearForceData, bendingMomentData, pc>>

standardMaterials ==
    [m \in {"ASTM A36 Structural Steel", "ASTM A992 Structural Steel",
            "ASTM A572 Grade 50 Steel", "Custom"} |->
        CASE m = "ASTM A36 Structural Steel" ->
                [yieldStrength |-> Num(250), elasticModulus |-> Num(200)]
          [] m = "ASTM A992 Structural Steel" ->
                [yieldStrength |-> Num(345), elasticModulus |-> Num(200)]
          [] m = "ASTM A572 Grade 50 Steel" ->
                [yieldStrength |-> Num(345), elasticModulus |-> Num(200)]
          [] m = "Custom" ->
                [yieldStrength |-> Num(0), elasticModulus |-> Num(0)]]

\* the initial values of the useState cells
DefaultInputs ==
    [beamType |-> "Simple Beam",
     beamCrossSection |-> "Rectangular",
     beamLength |-> Num(1000),
     leftSupport |-> Num(0),
     rightSupport |-> Num(1000),
     loadType |-> "Point Load",
     loadMagnitude |-> Num(1000),
     loadStartPosition |-> Num(500),
     loadEndPosition |-> Num(500),
     material |-> "ASTM A36 Structural Steel",
     customMaterial |-> standardMaterials["Custom"],
     width |-> Num(100),
     height |-> Num(200),
     flangeWidth |-> Num(100),
     flangeThickness |-> Num(10),
     webThickness |-> Num(6),
     diameter |-> Num(100),
     beamDensity |-> Num(7850)]

InitialResults ==
    [maxShearForce |-> Num(0),
     maxBendingMoment |-> Num(0),
     maxNormalStress |-> Num(0),
     maxShearStress |-> Num(0),
     safetyFactor |-> Num(0),
     centerOfGravity |-> Num(0),
     momentOfInertia |-> Num(0),
     sectionModulus |-> Num(0)]

\* Math.PI, by the rational 355/113
MathPI == R(355, 113)

----------------------------------------------------------------------------
(* calculateResults                                                        *)

\* mm to m
ToM(v) == Div(v, Num(1000))

\* the inputs converted from mm to m at the head of calculateResults
Meters(in) ==
    [beamLengthM |-> ToM(in.beamLength),
     leftSupportM |-> ToM(in.leftSupport),
     rightSupportM |-> ToM(in.rightSupport),
     loadStartPositionM |-> ToM(in.loadStartPosition),
     loadEndPositionM |-> ToM(in.loadEndPosition),
     widthM |-> ToM(in.width),
     heightM |-> ToM(in.height),
     flangeWidthM |-> ToM(in.flangeWidth),
     flangeThicknessM |-> ToM(in.flangeThickness),
     webThicknessM |-> ToM(in.webThickness),
     diameterM |-> ToM(in.diameter)]

\* the cross-section area used for the beam volume (first switch), from the
\* converted inputs m
VolumeArea(in, m) ==
    CASE in.beamCrossSection \in {"I Beam", "C Channel"} ->
            Add(Mul(Mul(Num(2), m.flangeWidthM), m.flangeThicknessM),
                Mul(Sub(m.heightM, Mul(Num(2), m.flangeThicknessM)), m.webThicknessM))
      [] in.beamCrossSection = "Circular" ->
            Mul(MathPI, MathPow(Div(m.diameterM, Num(2)), 2))
      [] OTHER -> Mul(m.widthM, m.heightM)

\* beamVolume * beamDensity * 9.81
BeamWeightOf(in, m) ==
    Mul(Mul(Mul(VolumeArea(in, m), m.beamLengthM), in.beamDensity), R(981, 100))

beamWeightN(in) == BeamWeightOf(in, Meters(in))

\* totalMoment / totalForce for a uniform load of length loadLength on a beam
\* of weight w
UniformCenterOfGravity(in, m, w, loadLength) ==
    Div(Add(Mul(w, Div(m.beamLengthM, Num(2))),
            Mul(Mul(in.loadMagnitude, loadLength),
                Add(m.loadStartPositionM, Div(loadLength, Num(2))))),
        Add(w, Mul(in.loadMagnitude, loadLength)))

\* totalMoment / totalForce for a beam of weight w
CenterOfGravityOf(in, m, w) ==
    IF in.loadType = "Point Load"
    THEN Div(Add(Mul(w, Div(m.beamLengthM, Num(2))),
                 Mul(in.loadMagnitude, m.loadStartPositionM)),
             Add(w, in.loadMagnitude))
    ELSE UniformCenterOfGravity(in, m, w,
                                Sub(m.loadEndPositionM, m.loadStartPositionM))

centerOfGravity(in) == CenterOfGravityOf(in, Meters(in), beamWeightN(in))

\* the web term heightM - 2 * flangeThicknessM as a sign error would have it
WebHeight_Swapped(in) ==
    Sub(Mul(Num(2), ToM(in.flangeThickness)), ToM(in.height))

\* heightM - 2 * flangeThicknessM, the height of the web of an I beam or channel
WebHeight(in) ==
    Sub(ToM(in.height), Mul(Num(2), ToM(in.flangeThickness)))

\* Math.pow((heightM - flangeThicknessM) / 2, 2)
FlangeLever(m) == MathPow(Div(Sub(m.heightM, m.flangeThicknessM), Num(2)), 2)

\* area and momentOfInertia of the selected shape (second switch), from the
\* converted inputs m and the web height
AreaAndInertia(in, m, webHeight) ==
    CASE in.beamCrossSection = "I Beam" ->
            [area |-> Add(Mul(Mul(Num(2), m.flangeWidthM), m.flangeThicknessM),
                          Mul(webHeight, m.webThicknessM)),
             momentOfInertia |->
                \* 2 * I_flange + I_web
                Add(Mul(Num(2),
                        Add(Div(Mul(m.flangeWidthM, MathPow(m.flangeThicknessM, 3)),
                                Num(6)),
                            Mul(Mul(Mul(Num(2), m.flangeWidthM), m.flangeThicknessM),
                                FlangeLever(m)))),
                    Div(Mul(m.webThicknessM, MathPow(webHeight, 3)), Num(12)))]
      [] in.beamCrossSection = "C Channel" ->
            [area |-> Add(Mul(Mul(Num(2), m.flangeWidthM), m.flangeThicknessM),
                          Mul(webHeight, m.webThicknessM)),
             momentOfInertia |->
                \* 2 * I_flange_c + I_web_c
                Add(Mul(Num(2),
                        Add(Div(Mul(m.flangeWidthM, MathPow(m.flangeThicknessM, 3)),
                                Num(12)),
                            Mul(Mul(m.flangeWidthM, m.flangeThicknessM),
                                FlangeLever(m)))),
                    Div(Mul(m.webThicknessM, MathPow(webHeight, 3)), Num(12)))]
      [] in.beamCrossSection = "Circular" ->
            [area |-> Mul(MathPI, MathPow(Div(m.diameterM, Num(2)), 2)),
             momentOfInertia |-> Div(Mul(MathPI, MathPow(m.diameterM, 4)), Num(64))]
      [] OTHER ->
            [area |-> Mul(m.widthM, m.heightM),
             momentOfInertia |-> Div(Mul(m.widthM, MathPow(m.heightM, 3)), Num(12))]

\* sectionModulus = momentOfInertia / (heightM / 2), or / (diameterM / 2)
WithSectionModulus(in, m, sec) ==
    [area |-> sec.area,
     momentOfInertia |-> sec.momentOfInertia,
     sectionModulus |->
        IF in.beamCrossSection = "Circular"
        THEN Div(sec.momentOfInertia, Div(m.diameterM, Num(2)))
        ELSE Div(sec.momentOfInertia, Div(m.heightM, Num(2)))]

SectionOf(in, m) == WithSectionModulus(in, m, AreaAndInertia(in, m, WebHeight(in)))

\* the second switch: area, momentOfInertia and sectionModulus of the section
SectionProperties(in) == SectionOf(in, Meters(in))

\* the record passed to setResults, from the maxima, the stresses, the section
\* and the material
RoundedResults(maxShearForce, maxBendingMoment, maxNormalStress, maxShearStress, materialProps, cog, sec) ==
    [maxShearForce |-> ToFixed(maxShearForce, 2),
     maxBendingMoment |-> ToFixed(maxBendingMoment, 2),
     maxNormalStress |-> ToFixed(maxNormalStress, 2),
     maxShearStress |-> ToFixed(maxShearStress, 2),
     safetyFactor |-> ToFixed(Div(materialProps.yieldStrength, maxNormalStress), 2),
     centerOfGravity |-> ToFixed(cog, 3),
     momentOfInertia |-> ToFixed(sec.momentOfInertia, 6),
     sectionModulus |-> ToFixed(sec.sectionModulus, 6)]

\* the stresses from the maxima and the section, then the record
ResultsOf(in, maxShearForce, maxBendingMoment, sec) ==
    RoundedResults(
             maxShearForce, maxBendingMoment,
             Div(Div(maxBendingMoment, sec.sectionModulus), Num(1000000)),
             Div(Div(Mul(R(3, 2), maxShearForce), sec.area), Num(1000000)),
             IF in.material = "Custom" THEN in.customMaterial
             ELSE standardMaterials[in.material],
             centerOfGravity(in), sec)

\* the record passed to setResults: maxShearForce and maxBendingMoment are
\* declared 0 and not assigned again
ResultSet(in) == ResultsOf(in, Num(0), Num(0), SectionProperties(in))

----------------------------------------------------------------------------
(* calculateDiagrams                                                       *)

numPoints == 100

\* R1 with the moment arm divided by the right support position instead of
\* the distance between the supports
R1_DivByRight(in) ==
    LET loadLength == Sub(in.loadEndPosition, in.loadStartPosition)
        totalLoad == Mul(in.loadMagnitude, loadLength)
        loadCentroid == Div(Add(in.loadStartPosition, in.loadEndPosition), Num(2))
    IN  IF in.beamType = "Simple Beam"
        THEN IF in.loadType = "Point Load"
             THEN Div(Mul(in.loadMagnitude, Sub(in.rightSupport, in.loadStartPosition)),
                      in.rightSupport)
             ELSE Div(Mul(totalLoad, Sub(in.rightSupport, loadCentroid)), in.rightSupport)
        ELSE IF in.loadType = "Point Load"
             THEN in.loadMagnitude
             ELSE Mul(in.loadMagnitude, loadLength)

\* the reaction forces computed at the head of every loop iteration
R1(in) ==
    LET span == Sub(in.rightSupport, in.leftSupport)
        loadLength == Sub(in.loadEndPosition, in.loadStartPosition)
        totalLoad == Mul(in.loadMagnitude, loadLength)
        loadCentroid == Div(Add(in.loadStartPosition, in.loadEndPosition), Num(2))
    IN  IF in.beamType = "Simple Beam"
        THEN IF in.loadType = "Point Load"
             THEN Div(Mul(in.loadMagnitude, Sub(in.rightSupport, in.loadStartPosition)),
                      span)
             ELSE Div(Mul(totalLoad, Sub(in.rightSupport, loadCentroid)), span)
        ELSE IF in.loadType = "Point Load"
             THEN in.loadMagnitude
             ELSE Mul(in.loadMagnitude, loadLength)

\* R2 with the load position measured from the beam's origin instead of from
\* the left support
R2_FromOrigin(in) ==
    LET span == Sub(in.rightSupport, in.leftSupport)
        loadLength == Sub(in.loadEndPosition, in.loadStartPosition)
        totalLoad == Mul(in.loadMagnitude, loadLength)
        loadCentroid == Div(Add(in.loadStartPosition, in.loadEndPosition), Num(2))
    IN  IF in.beamType = "Simple Beam"
        THEN IF in.loadType = "Point Load"
             THEN Div(Mul(in.loadMagnitude, in.loadStartPosition), span)
             ELSE Div(Mul(totalLoad, loadCentroid), span)
        ELSE Num(0)

R2(in) ==
    LET span == Sub(in.rightSupport, in.leftSupport)
        loadLength == Sub(in.loadEndPosition, in.loadStartPosition)
        totalLoad == Mul(in.loadMagnitude, loadLength)
        loadCentroid == Div(Add(in.loadStartPosition, in.loadEndPosition), Num(2))
    IN  IF in.beamType = "Simple Beam"
        THEN IF in.loadType = "Point Load"
             THEN Div(Mul(in.loadMagnitude, Sub(in.loadStartPosition, in.leftSupport)),
                      span)
             ELSE Div(Mul(totalLoad, Sub(loadCentroid, in.leftSupport)), span)
        ELSE Num(0)

RECURSIVE ILog2(_)
ILog2(m) == IF m < 2 THEN 0 ELSE 1 + ILog2(m \div 2)
RECURSIVE FracLog2(_, _)
FracLog2(n, d) == IF n >= d THEN 0 ELSE FracLog2(2 * n, d) - 1
\* floor(log2(a)) for a finite a > 0
Log2Floor(a) == IF a.i >= 1 THEN ILog2(a.i) ELSE FracLog2(a.n, a.d)
RECURSIVE Pow2(_)
Pow2(k) == IF k = 0 THEN 1 ELSE 2 * Pow2(k - 1)
RECURSIVE Pow2Mod(_, _)
Pow2Mod(k, m) == IF k = 0 THEN 1 % m ELSE (2 * Pow2Mod(k - 1, m)) % m
IsPow2(a) ==
    \/ a.n = 0 /\ a.i >= 1 /\ a.i = Pow2(ILog2(a.i))
    \/ a.i = 0 /\ a.n = 1 /\ a.d = Pow2(ILog2(a.d))

\* the remainder of the division L / (numPoints - 1) carried to 53 bits, where
\* eq is the exponent of the quotient
DxRemainder(L, eq) ==
    (((L.i * L.d + L.n) % (numPoints - 1))
        * Pow2Mod(52 - eq - ILog2(L.d), numPoints - 1)) % (numPoints - 1)

\* the rounding of i * dx given the remainder r left by dx and the exact
\* product B: the second rounding returns to B unless i times the error of dx
\* exceeds half a unit in the last place of B
ProductRounding(L, i, eq, r, B) ==
    IF r = 0 THEN 0
    ELSE IF 2 * i * (IF 2 * r < numPoints - 1 THEN r ELSE numPoints - 1 - r)
                  * (IF 2 * r < numPoints - 1 /\ IsPow2(B) THEN 2 ELSE 1)
            > (numPoints - 1) * Pow2(Log2Floor(B) - eq)
         THEN (IF 2 * r < numPoints - 1 THEN -1 ELSE 1) * L.s
         ELSE 0

DxRounding(L, i, q, eq) ==
    ProductRounding(L, i, eq, DxRemainder(L, eq), Mul(Num(i), q))

\* The double i * dx against the exact product i * L / (numPoints - 1), when
\* that product is itself a double: -1 below it, 0 equal, 1 above it.
\* dx = L / (numPoints - 1) is rounded to 53 bits and i * dx is rounded again.
\* L is a double (a dyadic number) greater than 0.
SampleRounding(L, i) ==
    IF i = 0 \/ ~IsFinite(L) \/ IsZero(L) THEN 0
    ELSE DxRounding(L, i, Div(Abs(L), Num(numPoints - 1)),
                    Log2Floor(Div(Abs(L), Num(numPoints - 1))))

\* the sample position x, whose double is off its exact value in the direction
\* e, against a position b: -1 for x < b, 0 for x = b, 1 for x > b, 2 when
\* they do not compare (NaN)
XCmp(e, x, b) ==
    IF Eq(x, b) THEN e
    ELSE IF Lt(x, b) THEN -1
    ELSE IF Gt(x, b) THEN 1
    ELSE 2
XGe(e, x, b) == XCmp(e, x, b) \in {0, 1}
XGt(e, x, b) == XCmp(e, x, b) = 1
XLe(e, x, b) == XCmp(e, x, b) \in {-1, 0}
XLt(e, x, b) == XCmp(e, x, b) = -1

\* the shear left after the load when the loaded length of a uniform load is
\* not capped at the length of the load
ShearAfterLoad_Uncapped(in, e, x, s2) ==
    IF in.loadType = "Point Load"
    THEN IF XGe(e, x, in.loadStartPosition)
         THEN Sub(s2, in.loadMagnitude)
         ELSE s2
    ELSE IF XGe(e, x, in.loadStartPosition)
         THEN Sub(s2, Mul(in.loadMagnitude, Sub(x, in.loadStartPosition)))
         ELSE s2

\* the shear left after the load, from the shear s2 left by the supports
ShearAfterLoad(in, e, x, s2) ==
    IF in.loadType = "Point Load"
    THEN IF XGe(e, x, in.loadStartPosition)
         THEN Sub(s2, in.loadMagnitude)
         ELSE s2
    ELSE IF XGe(e, x, in.loadStartPosition)
         THEN Sub(s2, Mul(in.loadMagnitude,
                          MathMin(Sub(x, in.loadStartPosition),
                                  Sub(in.loadEndPosition, in.loadStartPosition))))
         ELSE s2

\* the shear left after the right support, from the shear s1 left by the left one
ShearAfterRight(in, e, x, r2, s1) ==
    ShearAfterLoad(in, e, x,
                   IF XGe(e, x, in.rightSupport) THEN Sub(s1, r2) ELSE s1)

\* shear at position x of a simply supported beam, given the reactions
SimpleShear(in, e, x, r1, r2) ==
    ShearAfterRight(in, e, x, r2,
                    IF XGe(e, x, in.leftSupport) THEN Add(Num(0), r1) ELSE Num(0))

\* the moment left after a uniform load, of which loadedLength lies left of x
MomentAfterUniform(in, x, m1, loadedLength) ==
    Sub(m1, Mul(Mul(in.loadMagnitude, loadedLength),
                Sub(x, Add(in.loadStartPosition, Div(loadedLength, Num(2))))))

\* the moment left after the load, from the moment m1 of the reactions
MomentAfterLoad(in, e, x, m1) ==
    IF in.loadType = "Point Load"
    THEN IF XGt(e, x, in.loadStartPosition)
         THEN Sub(m1, Mul(in.loadMagnitude, Sub(x, in.loadStartPosition)))
         ELSE m1
    ELSE IF XGt(e, x, in.loadStartPosition)
         THEN MomentAfterUniform(in, x, m1,
                                 MathMin(Sub(x, in.loadStartPosition),
                                         Sub(in.loadEndPosition, in.loadStartPosition)))
         ELSE m1

\* the moment of the reactions, from the moment m0 of R1
MomentAfterRight(in, e, x, r2, m0) ==
    MomentAfterLoad(in, e, x,
                    IF XGt(e, x, in.rightSupport)
                    THEN Sub(m0, Mul(r2, Sub(x, in.rightSupport)))
                    ELSE m0)

\* bending moment at position x of a simply supported beam
SimpleMoment(in, e, x, r1, r2) ==
    MomentAfterRight(in, e, x, r2, Mul(r1, Sub(x, in.leftSupport)))

\* shear at position x of a cantilever
CantileverShear(in, e, x) ==
    IF in.loadType = "Point Load"
    THEN IF XLe(e, x, in.loadStartPosition)
         THEN Neg(in.loadMagnitude)
         ELSE Num(0)
    ELSE IF XLe(e, x, in.loadStartPosition)
         THEN Mul(Neg(in.loadMagnitude),
                  Sub(in.loadEndPosition, in.loadStartPosition))
         ELSE IF XLt(e, x, in.loadEndPosition)
              THEN Mul(Neg(in.loadMagnitude), Sub(in.loadEndPosition, x))
              ELSE Num(0)

\* -loadMagnitude * remainingLength * remainingLength / 2
PartialUniformMoment(in, remainingLength) ==
    Div(Mul(Mul(Neg(in.loadMagnitude), remainingLength), remainingLength), Num(2))

\* the cantilever moment with the arm of a uniform load taken from its start
\* instead of from its centroid
CantileverMoment_FromStart(in, e, x) ==
    IF in.loadType = "Point Load"
    THEN IF XLe(e, x, in.loadStartPosition)
         THEN Mul(Neg(in.loadMagnitude), Sub(in.beamLength, in.loadStartPosition))
         ELSE Num(0)
    ELSE IF XLe(e, x, in.loadStartPosition)
         THEN Mul(Mul(Neg(in.loadMagnitude),
                      Sub(in.loadEndPosition, in.loadStartPosition)),
                  Sub(in.beamLength, in.loadStartPosition))
         ELSE IF XLt(e, x, in.loadEndPosition)
              THEN PartialUniformMoment(in, Sub(in.loadEndPosition, x))
              ELSE Num(0)

\* bending moment at position x of a cantilever
CantileverMoment(in, e, x) ==
    IF in.loadType = "Point Load"
    THEN IF XLe(e, x, in.loadStartPosition)
         THEN Mul(Neg(in.loadMagnitude), Sub(in.beamLength, in.loadStartPosition))
         ELSE Num(0)
    ELSE IF XLe(e, x, in.loadStartPosition)
         THEN Mul(Mul(Neg(in.loadMagnitude),
                      Sub(in.loadEndPosition, in.loadStartPosition)),
                  Sub(in.beamLength,
                      Div(Add(in.loadStartPosition, in.loadEndPosition), Num(2))))
         ELSE IF XLt(e, x, in.loadEndPosition)
              THEN PartialUniformMoment(in, Sub(in.loadEndPosition, x))
              ELSE Num(0)

\* one iteration of the loop: the stored position and the shear and moment,
\* rounded as they are pushed; e is the rounding of the position x
Sample(in, e, x, r1, r2) ==
    [x |-> ToFixed(x, 2),
     shear |-> ToFixed(IF in.beamType = "Simple Beam"
                       THEN SimpleShear(in, e, x, r1, r2)
                       ELSE CantileverShear(in, e, x), 2),
     moment |-> ToFixed(IF in.beamType = "Simple Beam"
                        THEN SimpleMoment(in, e, x, r1, r2)
                        ELSE CantileverMoment(in, e, x), 2)]

\* the loop over i = k - 1 with x = i * dx
SamplesOf(in, dx, r1, r2) ==
    [k \in 1..numPoints |->
        Sample(in, SampleRounding(in.beamLength, k - 1), Mul(Num(k - 1), dx), r1, r2)]

Samples(in) ==
    SamplesOf(in, Div(in.beamLength, Num(numPoints - 1)), R1(in), R2(in))

\* the series handed to setShearForceData
ShearSeries(samples) ==
    [k \in 1..numPoints |-> [x |-> samples[k].x, y |-> samples[k].shear]]

\* the series handed to setBendingMomentData
MomentSeries(samples) ==
    [k \in 1..numPoints |-> [x |-> samples[k].x, y |-> samples[k].moment]]

----------------------------------------------------------------------------
(* Input handlers and the recomputation effect                             *)

\* at most this many input cells differ from their initial value
MaxEdited == 2

BeamTypes == {"Simple Beam", "Cantilever Beam"}
CrossSections == {"Rectangular", "I Beam", "C Channel", "Circular"}
LoadTypes == {"Point Load", "Uniform Load"}
Materials == DOMAIN standardMaterials

\* the values typed into the number inputs
Lengths == {Num(1000), Num(500)}
LeftSupports == {Num(0), Num(250), Num(1000)}
RightSupports == {Num(1000), Num(750), Num(0)}
Magnitudes == {Num(1000), Num(600)}
LoadStarts == {Num(500), Num(250), Num(1000), Num(1500)}
LoadEnds == {Num(500), Num(1000), Num(250)}
YieldStrengths == {Num(0), Num(250)}
ElasticModuli == {Num(0), Num(200)}
Densities == {Num(7850), Num(2700)}
Widths == {Num(100), Num(50), Num(0)}
Heights == {Num(200), Num(100), Num(0)}
FlangeWidths == {Num(100), Num(10)}
FlangeThicknesses == {Num(10), Num(100), Num(150)}
WebThicknesses == {Num(6), Num(100)}
Diameters == {Num(100), Num(50), Num(0)}

Edited(in) == Cardinality({f \in DOMAIN in : in[f] # DefaultInputs[f]})

\* a change handler whose new value does not make the effect run again
SetInput_NoEffect(field, v) ==
    /\ pc = "idle"
    /\ v # inputs[field]
    /\ Edited([inputs EXCEPT ![field] = v]) <= MaxEdited
    /\ inputs' = [inputs EXCEPT ![field] = v]
    /\ UNCHANGED <<pc, beamWeight, results, shearForceData, bendingMomentData>>

\* a state setter called with a new value: the cell changes and the effect
\* (whose dependencies cover every input cell) is scheduled
SetInput(field, v) ==
    /\ pc = "idle"
    /\ v # inputs[field]
    /\ Edited([inputs EXCEPT ![field] = v]) <= MaxEdited
    /\ inputs' = [inputs EXCEPT ![field] = v]
    /\ pc' = "calculateResults"
    /\ UNCHANGED <<beamWeight, results, shearForceData, bendingMomentData>>

setBeamType == \E v \in BeamTypes : SetInput("beamType", v)
setBeamCrossSection == \E v \in CrossSections : SetInput("beamCrossSection", v)
setBeamLength == \E v \in Lengths : SetInput("beamLength", v)
setLeftSupport ==
    /\ inputs.beamType = "Simple Beam"
    /\ \E v \in LeftSupports : SetInput("leftSupport", v)
setRightSupport ==
    /\ inputs.beamType = "Simple Beam"
    /\ \E v \in RightSupports : SetInput("rightSupport", v)
setLoadType == \E v \in LoadTypes : SetInput("loadType", v)
setLoadMagnitude == \E v \in Magnitudes : SetInput("loadMagnitude", v)
setLoadStartPosition == \E v \in LoadStarts : SetInput("loadStartPosition", v)
setLoadEndPosition ==
    /\ inputs.loadType = "Uniform Load"
    /\ \E v \in LoadEnds : SetInput("loadEndPosition", v)
setMaterial == \E v \in Materials : SetInput("material", v)
setCustomMaterial ==
    /\ inputs.material = "Custom"
    /\ \/ \E v \in YieldStrengths :
            SetInput("customMaterial", [inputs.customMaterial EXCEPT !.yieldStrength = v])
       \/ \E v \in ElasticModuli :
            SetInput("customMaterial", [inputs.customMaterial EXCEPT !.elasticModulus = v])
setBeamDensity == \E v \in Densities : SetInput("beamDensity", v)
setWidth ==
    /\ inputs.beamCrossSection = "Rectangular"
    /\ \E v \in Widths : SetInput("width", v)
setHeight ==
    /\ inputs.beamCrossSection \in {"Rectangular", "I Beam", "C Channel"}
    /\ \E v \in Heights : SetInput("height", v)
setFlangeWidth ==
    /\ inputs.beamCrossSection \in {"I Beam", "C Channel"}
    /\ \E v \in FlangeWidths : SetInput("flangeWidth", v)
setFlangeThickness ==
    /\ inputs.beamCrossSection \in {"I Beam", "C Channel"}
    /\ \E v \in FlangeThicknesses : SetInput("flangeThickness", v)
setWebThickness ==
    /\ inputs.beamCrossSection \in {"I Beam", "C Channel"}
    /\ \E v \in WebThicknesses : SetInput("webThickness", v)
setDiameter ==
    /\ inputs.beamCrossSection = "Circular"
    /\ \E v \in Diameters : SetInput("diameter", v)

\* the first half of the effect as a stale closure would run it: once a centre
\* of gravity has been published, the earlier one is kept
calculateResults_StaleCenterOfGravity ==
    /\ pc = "calculateResults"
    /\ beamWeight' = ToFixed(beamWeightN(inputs), 2)
    /\ shearForceData' = <<>>
    /\ bendingMomentData' = <<>>
    /\ results' = IF results = InitialResults
                  THEN ResultSet(inputs)
                  ELSE [ResultSet(inputs) EXCEPT
                            !.centerOfGravity = results.centerOfGravity]
    /\ pc' = "calculateDiagrams"
    /\ UNCHANGED inputs

\* first half of the effect
calculateResults ==
    /\ pc = "calculateResults"
    /\ beamWeight' = ToFixed(beamWeightN(inputs), 2)
    /\ shearForceData' = <<>>
    /\ bendingMomentData' = <<>>
    /\ results' = ResultSet(inputs)
    /\ pc' = "calculateDiagrams"
    /\ UNCHANGED inputs

\* setShearForceData(shearForce); setBendingMomentData(bendingMoment)
setDiagramData(samples) ==
    /\ shearForceData' = ShearSeries(samples)
    /\ bendingMomentData' = MomentSeries(samples)

\* second half of the effect
calculateDiagrams ==
    /\ pc = "calculateDiagrams"
    /\ setDiagramData(Samples(inputs))
    /\ pc' = "idle"
    /\ UNCHANGED <<inputs, beamWeight, results>>

\* the component after its first render: the effect is about to run
Init ==
    /\ inputs = DefaultInputs
    /\ beamWeight = Num(0)
    /\ results = InitialResults
    /\ shearForceData = <<>>
    /\ bendingMomentData = <<>>
    /\ pc = "calculateResults"

Next ==
    \/ setBeamType
    \/ setBeamCrossSection
    \/ setBeamLength
    \/ setLeftSupport
    \/ setRightSupport
    \/ setLoadType
    \/ setLoadMagnitude
    \/ setLoadStartPosition
    \/ setLoadEndPosition
    \/ setMaterial
    \/ setCustomMaterial
    \/ setBeamDensity
    \/ setWidth
    \/ setHeight
    \/ setFlangeWidth
    \/ setFlangeThickness
    \/ setWebThickness
    \/ setDiameter
    \/ calculateResults
    \/ calculateDiagrams

Spec == Init /\ [][Next]_vars

\* the next call of the effect body is made: calculateResults(), then
\* calculateDiagrams().  Under Next these are exactly the steps that change pc
\* away from a value other than "idle".
EffectStep ==
    /\ pc # "idle"
    /\ pc' = IF pc = "calculateResults" THEN "calculateDiagrams" ELSE "idle"

\* React runs the effect after every render whose dependencies changed, and
\* the effect body runs both calls to completion
SpecLive == Spec /\ WF_pc(EffectStep)

----------------------------------------------------------------------------
(* The effect applied to a grid of inputs                                  *)

\* positions along a beam of length L
GridLefts(L) == {Num(0), Div(L, Num(4))}
GridRights(L) == {L, Mul(L, R(3, 4)), Div(L, Num(4))}
GridStarts(L) == {Num(0), Div(L, Num(4)), Div(L, Num(2)), L}
GridEnds(L) == {Div(L, Num(2)), Mul(L, R(3, 4)), L}

\* point loads in N, uniform loads in N/mm
PointMagnitudes == {Num(1000), Num(600)}
UniformMagnitudes == {Num(10), Num(6)}

\* beam and load configurations of a beam of length L and density rho, the
\* cross-section and the material at their initial values; the cells a
\* configuration does not read keep their initial value
StaticsGrid(L, rho) ==
    LET base == [DefaultInputs EXCEPT !.beamLength = L, !.beamDensity = rho]
        loads ==
            {[base EXCEPT !.loadType = "Point Load", !.loadMagnitude = m,
                          !.loadStartPosition = a] :
                m \in PointMagnitudes, a \in GridStarts(L)}
            \cup
            {[base EXCEPT !.loadType = "Uniform Load", !.loadMagnitude = m,
                          !.loadStartPosition = a, !.loadEndPosition = b] :
                m \in UniformMagnitudes, a \in GridStarts(L), b \in GridEnds(L)}
    IN  {[c EXCEPT !.beamType = "Cantilever Beam"] : c \in loads}
        \cup
        {[c EXCEPT !.leftSupport = l, !.rightSupport = r] :
            c \in loads, l \in GridLefts(L), r \in GridRights(L)}

\* cross-sections, the beam and the load at their initial values
SectionGrid ==
    {[DefaultInputs EXCEPT !.width = w, !.height = h] : w \in Widths, h \in Heights}
    \cup
    {[DefaultInputs EXCEPT !.beamCrossSection = cs, !.height = h, !.flangeWidth = bf,
                           !.flangeThickness = tf, !.webThickness = tw] :
        cs \in {"I Beam", "C Channel"}, h \in Heights, bf \in FlangeWidths,
        tf \in FlangeThicknesses, tw \in WebThicknesses}
    \cup
    {[DefaultInputs EXCEPT !.beamCrossSection = "Circular", !.diameter = dia] :
        dia \in Diameters}

GridInputs ==
    UNION {StaticsGrid(Num(1000), Num(7850)), StaticsGrid(Num(500), Num(7850)),
           StaticsGrid(R(1, 2), Num(0)), SectionGrid}

InitGrid ==
    /\ inputs \in GridInputs
    /\ beamWeight = Num(0)
    /\ results = InitialResults
    /\ shearForceData = <<>>
    /\ bendingMomentData = <<>>
    /\ pc = "calculateResults"

NextEffect ==
    \/ calculateResults
    \/ calculateDiagrams

SpecGrid == InitGrid /\ [][NextEffect]_vars

----------------------------------------------------------------------------
(* Properties                                                              *)

\* the effect has run on the current inputs
Published == pc = "idle"

Positive(a) == Gt(a, Num(0))

\* BeamConfig and Load as the data model constrains them
ValidConfig(in) ==
    /\ Positive(in.beamLength)
    /\ in.beamType = "Simple Beam" =>
        /\ Ge(in.leftSupport, Num(0))
        /\ Lt(in.leftSupport, in.rightSupport)
        /\ Le(in.rightSupport, in.beamLength)
ValidLoad(in) ==
    /\ Ge(in.loadStartPosition, Num(0))
    /\ Le(in.loadStartPosition, in.beamLength)
    /\ in.loadType = "Uniform Load" =>
        /\ Le(in.loadStartPosition, in.loadEndPosition)
        /\ Le(in.loadEndPosition, in.beamLength)

\* the total applied load in the units of calculateDiagrams
TotalLoad(in) ==
    IF in.loadType = "Point Load" THEN in.loadMagnitude
    ELSE Mul(in.loadMagnitude, Sub(in.loadEndPosition, in.loadStartPosition))

\* C1 as stated: for every valid (config, load) pair the reactions R1 + R2
\* equal the total applied load plus the beam's self-weight.
C1_ReactionsCarryLoadAndSelfWeight ==
    (Published /\ ValidConfig(inputs) /\ ValidLoad(inputs)) =>
        Eq(Add(R1(inputs), R2(inputs)),
           Add(TotalLoad(inputs), beamWeightN(inputs)))

\* C1 amended: for every valid (config, load) pair the reactions R1 + R2
\* equal the total applied load; the self-weight is not part of them.
C1_ReactionsCarryLoad ==
    (Published /\ ValidConfig(inputs) /\ ValidLoad(inputs)) =>
        Eq(Add(R1(inputs), R2(inputs)), TotalLoad(inputs))

C1_Witness ==
    /\ Published
    /\ ValidConfig(inputs)
    /\ ValidLoad(inputs)
    /\ inputs.beamType = "Simple Beam"
    /\ inputs.loadType = "Uniform Load"
    /\ Positive(inputs.leftSupport)
    /\ Positive(R1(inputs))
    /\ Positive(R2(inputs))
    /\ ~Eq(R1(inputs), R2(inputs))
    /\ Positive(beamWeight)

\* the largest magnitude among the values of a series
RECURSIVE MaxAbsUpTo(_, _)
MaxAbsUpTo(series, k) ==
    IF k = 0 THEN Num(0)
    ELSE LET m == MaxAbsUpTo(series, k - 1)
             v == Abs(series[k].y)
         IN  IF Gt(v, m) THEN v ELSE m
MaxAbs(series) == MaxAbsUpTo(series, Len(series))

\* C2: maxShearForce and maxBendingMoment of the ResultSet are the largest
\* absolute values among the samples of the shear and of the moment series
\* produced for the same inputs.
C2_MaximaAreSeriesMaxima ==
    Published =>
        /\ Eq(results.maxShearForce, MaxAbs(shearForceData))
        /\ Eq(results.maxBendingMoment, MaxAbs(bendingMomentData))

\* C3: a cantilever of length > 0 with a point load at its free end reports
\* maxBendingMoment = magnitude * length.
C3_CantileverTipMoment ==
    (/\ Published
     /\ inputs.beamType = "Cantilever Beam"
     /\ inputs.loadType = "Point Load"
     /\ Positive(inputs.beamLength)
     /\ Eq(inputs.loadStartPosition, inputs.beamLength)) =>
        Eq(results.maxBendingMoment, Mul(inputs.loadMagnitude, inputs.beamLength))

\* the stored positions of a series go from 0 to the beam length, strictly
\* increasing, over exactly numPoints entries
SeriesShape(series, L) ==
    /\ Len(series) = 100
    /\ Eq(series[1].x, Num(0))
    /\ Eq(series[Len(series)].x, L)
    /\ \A k \in 1..(Len(series) - 1) : Lt(series[k].x, series[k + 1].x)

\* C4: for every beam length > 0 both stored series have exactly 100 entries,
\* the first stored position is 0, the last is the length, and the stored
\* (rounded) positions are strictly increasing.
C4_SeriesShape ==
    (Published /\ Positive(inputs.beamLength)) =>
        /\ SeriesShape(shearForceData, inputs.beamLength)
        /\ SeriesShape(bendingMomentData, inputs.beamLength)

\* C5: a simply supported beam with supports symmetric about midspan
\* (left < right) and a point load at midspan has R1 = R2 = magnitude / 2.
C5_SymmetricReactions ==
    (/\ Published
     /\ inputs.beamType = "Simple Beam"
     /\ inputs.loadType = "Point Load"
     /\ Lt(inputs.leftSupport, inputs.rightSupport)
     /\ Eq(Add(inputs.leftSupport, inputs.rightSupport), inputs.beamLength)
     /\ Eq(Mul(Num(2), inputs.loadStartPosition), inputs.beamLength)) =>
        /\ Eq(R1(inputs), Div(inputs.loadMagnitude, Num(2)))
        /\ Eq(R2(inputs), Div(inputs.loadMagnitude, Num(2)))

C5_Witness ==
    /\ Published
    /\ inputs.beamType = "Simple Beam"
    /\ inputs.loadType = "Point Load"
    /\ Positive(inputs.leftSupport)
    /\ Lt(inputs.leftSupport, inputs.rightSupport)
    /\ Eq(Add(inputs.leftSupport, inputs.rightSupport), inputs.beamLength)
    /\ Eq(Mul(Num(2), inputs.loadStartPosition), inputs.beamLength)
    /\ Eq(inputs.loadMagnitude, Num(600))
    /\ Eq(shearForceData[1].y, Num(0))
    /\ Eq(shearForceData[numPoints \div 2].y, Num(300))

\* C6: whenever maxNormalStress is 0 the published safetyFactor is not NaN,
\* for every material, the Custom material with yieldStrength 0 included.
C6_SafetyFactorDefined ==
    (Published /\ IsZero(results.maxNormalStress)) => ~IsNaN(results.safetyFactor)

\* C7: a simply supported configuration whose right support is not beyond
\* its left support is rejected: calculateDiagrams stores no sample computed
\* from a reaction divided by (rightSupport - leftSupport).
C7_DegenerateSupportsRejected ==
    [][(/\ pc = "calculateDiagrams"
        /\ inputs.beamType = "Simple Beam"
        /\ ~Lt(inputs.leftSupport, inputs.rightSupport)) =>
            UNCHANGED <<shearForceData, bendingMomentData>>]_vars

\* the dimensions the selected cross-section reads
SectionDimensions(in) ==
    CASE in.beamCrossSection \in {"I Beam", "C Channel"} ->
            {in.flangeWidth, in.flangeThickness, in.webThickness, in.height}
      [] in.beamCrossSection = "Circular" -> {in.diameter}
      [] OTHER -> {in.width, in.height}
Flanged(in) == in.beamCrossSection \in {"I Beam", "C Channel"}

\* C8: a cross-section with a non-positive dimension, or an I beam or channel
\* with height - 2 * flangeThickness <= 0, is rejected before its properties
\* are computed: no ResultSet is published for it.
C8_InvalidGeometryRejected ==
    [][(/\ pc = "calculateResults"
        /\ \/ \E v \in SectionDimensions(inputs) : ~Positive(v)
           \/ /\ Flanged(inputs)
              /\ Le(inputs.height, Mul(Num(2), inputs.flangeThickness))) =>
            UNCHANGED results]_vars

\* C9: when the load position lies outside [0, length], or a uniform load
\* ends before it starts, nothing is published for the request: neither the
\* ResultSet, nor beamWeight, nor either series changes.
C9_InvalidLoadPublishesNothing ==
    [][(/\ pc # "idle"
        /\ \/ Lt(inputs.loadStartPosition, Num(0))
           \/ Gt(inputs.loadStartPosition, inputs.beamLength)
           \/ /\ inputs.loadType = "Uniform Load"
              /\ Lt(inputs.loadEndPosition, inputs.loadStartPosition)) =>
            UNCHANGED <<results, beamWeight, shearForceData, bendingMomentData>>]_vars

\* every dimension > 0 and, for an I beam or channel, the flange thickness
\* at most half the height
ValidGeometry(in) ==
    /\ \A v \in SectionDimensions(in) : Positive(v)
    /\ Flanged(in) => Le(Mul(Num(2), in.flangeThickness), in.height)

\* C10: for every valid, non-degenerate geometry of each of the four shapes
\* the momentOfInertia computed by calculateResults is strictly positive.
C10_PositiveInertia ==
    (Published /\ ValidGeometry(inputs)) =>
        Positive(SectionProperties(inputs).momentOfInertia)

C10_Witness ==
    /\ Published
    /\ ValidGeometry(inputs)
    /\ inputs.beamCrossSection = "I Beam"
    /\ Eq(inputs.webThickness, Num(100))
    /\ Eq(inputs.flangeWidth, Num(10))
    /\ Lt(Mul(Num(2), inputs.flangeThickness), inputs.height)
    /\ Positive(results.momentOfInertia)

\* C11: for the default scenario (Rectangular 100 x 200, length 1000, simply
\* supported at 0 and 1000, point load 1000 at 500) R1 = R2 = 500 and the
\* reported maxBendingMoment is 250000.
C11_DefaultScenario ==
    (Published /\ inputs = DefaultInputs) =>
        /\ Eq(R1(inputs), Num(500))
        /\ Eq(R2(inputs), Num(500))
        /\ Eq(results.maxBendingMoment, Num(250000))

\* C12: for a cantilever of length L with a uniform load w over the whole span
\* [0, L], R1 is the total load w * L and the moment sample at the fixed end
\* (x = 0) is -(w * L) * L / 2.
C12_CantileverFullUniform ==
    (/\ Published
     /\ inputs.beamType = "Cantilever Beam"
     /\ inputs.loadType = "Uniform Load"
     /\ Positive(inputs.beamLength)
     /\ Eq(inputs.loadStartPosition, Num(0))
     /\ Eq(inputs.loadEndPosition, inputs.beamLength)) =>
        /\ Eq(R1(inputs), Mul(inputs.loadMagnitude, inputs.beamLength))
        /\ Eq(bendingMomentData[1].x, Num(0))
        /\ Eq(bendingMomentData[1].y,
              Neg(Div(Mul(Mul(inputs.loadMagnitude, inputs.beamLength),
                          inputs.beamLength), Num(2))))

C12_Witness ==
    /\ Published
    /\ inputs.beamType = "Cantilever Beam"
    /\ inputs.loadType = "Uniform Load"
    /\ Eq(inputs.beamLength, Num(1000))
    /\ Eq(inputs.loadMagnitude, Num(10))
    /\ Eq(inputs.loadStartPosition, Num(0))
    /\ Eq(inputs.loadEndPosition, Num(1000))
    /\ Eq(R1(inputs), Num(10000))
    /\ Eq(bendingMomentData[1].y, Num(-5000000))

\* the two flanges of the I-Beam formula of the claim over the converted
\* dimensions m: 2 * [bf * tf^3 / 6 + bf * tf * ((h - tf) / 2)^2]
FlangesOncePerFlange(m) ==
    Mul(Num(2),
        Add(Div(Mul(m.flangeWidthM, MathPow(m.flangeThicknessM, 3)), Num(6)),
            Mul(Mul(m.flangeWidthM, m.flangeThicknessM),
                MathPow(Div(Sub(m.heightM, m.flangeThicknessM), Num(2)), 2))))

\* the web of the I-Beam formula of the claim: tw * (h - 2 tf)^3 / 12
WebOfClaim(m) ==
    Div(Mul(m.webThicknessM,
            MathPow(Sub(m.heightM, Mul(Num(2), m.flangeThicknessM)), 3)),
        Num(12))

\* C13: for every valid I-Beam geometry (bf, tf, tw, h) the momentOfInertia is
\* 2 * [bf * tf^3 / 6 + bf * tf * ((h - tf) / 2)^2] + tw * (h - 2 tf)^3 / 12,
\* the parallel-axis term counted exactly once per flange.  The equation is
\* checked with the web term moved to the left-hand side, which keeps every
\* intermediate value within the 32-bit integers of TLC.
C13_IBeamInertia ==
    (Published /\ inputs.beamCrossSection = "I Beam" /\ ValidGeometry(inputs)) =>
        Eq(Sub(SectionProperties(inputs).momentOfInertia, WebOfClaim(Meters(inputs))),
           FlangesOncePerFlange(Meters(inputs)))

\* C14: the published results, beam weight and both series are a function of
\* the current inputs alone: whatever edits and recomputations came before,
\* what is published is what the effect computes from the current inputs, so
\* equal inputs publish equal results and running the effect again on
\* unchanged inputs would store the same values.
C14_PublishedIsFunctionOfInputs ==
    Published =>
        /\ results = ResultSet(inputs)
        /\ beamWeight = ToFixed(beamWeightN(inputs), 2)
        /\ shearForceData = ShearSeries(Samples(inputs))
        /\ bendingMomentData = MomentSeries(Samples(inputs))

\* a recomputation has been published for inputs reached by editing
C14_Witness ==
    /\ Published
    /\ Edited(inputs) = 2
    /\ results = ResultSet(inputs)
    /\ results # ResultSet(DefaultInputs)
    /\ Len(shearForceData) = numPoints

\* C15: for a simply supported beam whose left support lies at
\* leftSupport > 0, the bending moment at every sample x < leftSupport that
\* also lies before the start of the load is 0.
C15_NoMomentBeforeLeftSupport ==
    (/\ Published
     /\ inputs.beamType = "Simple Beam"
     /\ ValidConfig(inputs)
     /\ ValidLoad(inputs)
     /\ Positive(inputs.leftSupport)) =>
        \A i \in 1..Len(bendingMomentData) :
            (/\ Lt(bendingMomentData[i].x, inputs.leftSupport)
             /\ Lt(bendingMomentData[i].x, inputs.loadStartPosition)) =>
                Eq(bendingMomentData[i].y, Num(0))

\* C16: after any sequence of input changes, once the effect has run both
\* stored series hold the 100 samples computed from the current inputs; every
\* change of an input makes the effect run again; and the empty series that
\* calculateResults writes are always replaced by the regenerated ones.
C16_SeriesRegenerated ==
    /\ [](Published =>
            /\ Len(shearForceData) = numPoints
            /\ Len(bendingMomentData) = numPoints
            /\ shearForceData = ShearSeries(Samples(inputs))
            /\ bendingMomentData = MomentSeries(Samples(inputs)))
    /\ [][inputs' # inputs => pc' = "calculateResults"]_vars
    /\ (pc = "calculateResults") ~> Published
    /\ (shearForceData = <<>> \/ bendingMomentData = <<>>) ~>
            (Len(shearForceData) = numPoints /\ Len(bendingMomentData) = numPoints)

\* the series have been regenerated after a change of the load
C16_Witness ==
    /\ Published
    /\ inputs.loadStartPosition # DefaultInputs.loadStartPosition
    /\ Len(shearForceData) = numPoints
    /\ shearForceData = ShearSeries(Samples(inputs))
    /\ shearForceData # ShearSeries(Samples(DefaultInputs))

\* a uniform load whose end is its start
Degenerate(in) ==
    in.loadType = "Uniform Load" /\ Eq(in.loadEndPosition, in.loadStartPosition)

\* the point load of the same total force, magnitude * (end - start), at the
\* start position
PointOfSameTotalForce(in) ==
    [in EXCEPT !.loadType = "Point Load", !.loadMagnitude = TotalLoad(in)]

\* C17: a uniform load with endPosition = startPosition behaves as the point
\* load of the same total force at that position: the reactions and the stored
\* shear and moment samples are those of the point load, for a simply
\* supported beam and for a cantilever.  The values are compared as they are
\* stored, so that reactions that are NaN on both sides count as the same.
C17_DegenerateUniformIsPoint ==
    (Published /\ Degenerate(inputs)) =>
        /\ R1(inputs) = R1(PointOfSameTotalForce(inputs))
        /\ R2(inputs) = R2(PointOfSameTotalForce(inputs))
        /\ shearForceData = ShearSeries(Samples(PointOfSameTotalForce(inputs)))
        /\ bendingMomentData = MomentSeries(Samples(PointOfSameTotalForce(inputs)))

C17_Witness ==
    /\ Published
    /\ Degenerate(inputs)
    /\ inputs.beamType = "Simple Beam"
    /\ ValidConfig(inputs)
    /\ Positive(inputs.loadMagnitude)
    /\ Lt(inputs.leftSupport, inputs.loadStartPosition)
    /\ Lt(inputs.loadStartPosition, inputs.rightSupport)
    /\ shearForceData = ShearSeries(Samples(PointOfSameTotalForce(inputs)))

\* totalLoad of calculateResults: loadMagnitude * (loadEndPositionM -
\* loadStartPositionM), from the converted inputs m
CenterOfGravityTotalLoad(in, m) ==
    Mul(in.loadMagnitude, Sub(m.loadEndPositionM, m.loadStartPositionM))

\* totalLoad of calculateDiagrams: loadMagnitude * (loadEndPosition -
\* loadStartPosition)
ReactionsTotalLoad(in) ==
    Mul(in.loadMagnitude, Sub(in.loadEndPosition, in.loadStartPosition))

\* C18: for a uniform load the total load that enters the centre of gravity
\* in calculateResults and the total load that enters the reactions in
\* calculateDiagrams are the same quantity, magnitude * loaded length in one
\* unit.
C18_OneTotalLoad ==
    (Published /\ inputs.loadType = "Uniform Load" /\ ValidLoad(inputs)) =>
        /\ Eq(CenterOfGravityTotalLoad(inputs, Meters(inputs)),
              ReactionsTotalLoad(inputs))
        /\ (inputs.beamType = "Cantilever Beam") =>
                Eq(R1(inputs), CenterOfGravityTotalLoad(inputs, Meters(inputs)))

\* the whole load lies between the supports
LoadBetweenSupports(in) ==
    /\ Le(in.leftSupport, in.loadStartPosition)
    /\ Le(in.loadStartPosition, in.rightSupport)
    /\ in.loadType = "Uniform Load" => Le(in.loadEndPosition, in.rightSupport)

\* C19: for a simply supported beam with leftSupport < rightSupport and the
\* whole load between the supports, the shear at every sample at or beyond the
\* right support is 0: past the last force the forces are in balance.
C19_NoShearBeyondRightSupport ==
    (/\ Published
     /\ inputs.beamType = "Simple Beam"
     /\ ValidConfig(inputs)
     /\ ValidLoad(inputs)
     /\ LoadBetweenSupports(inputs)) =>
        \A i \in 1..Len(shearForceData) :
            Ge(shearForceData[i].x, inputs.rightSupport) =>
                Eq(shearForceData[i].y, Num(0))

====
